---- MODULE Spec2Model ----
(***************************************************************************)
(* FtpHook (src/app.py): one POST to /download-extract-upload runs the     *)
(* pipeline  locate release -> select asset -> download -> extract ->      *)
(* locate again -> select again -> upload over FTP -> delete local copies. *)
(*                                                                         *)
(* The program is sequential.  Every step that talks to the outside (the   *)
(* release host, the local filesystem, the FTP server) is one action; the  *)
(* outcome of the outside call is drawn with \E.  Strings the code         *)
(* inspects (asset names, paths) are sequences of one-character strings,   *)
(* so that re.match, str.replace, os.path.join and os.path.relpath are     *)
(* computed, not assumed.                                                  *)
(***************************************************************************)
EXTENDS Integers, Sequences, FiniteSets, TLC

VARIABLES
    req,            \* the request: body kind and the three JSON fields
    env,            \* process environment (os.getenv)
    sep,            \* os.sep of the platform the program runs on
    pc,             \* position of the handler
    phase,          \* 1: inside download_and_extract_latest_release, 2: after it
    base_url,       \* GiteaReleaseDownloader.base_url
    last_error,     \* GiteaReleaseDownloader.last_error ("None" when unset)
    release_data,   \* local release_data of the function now running
    asset,          \* local asset of download_and_extract_latest_release
    file_path,      \* local file_path of download_and_extract_latest_release
    extract_to,     \* local extract_to of download_and_extract_latest_release
    up_asset,       \* local asset of download_extract_and_upload
    up_extract_to,  \* local extract_to of download_extract_and_upload
    up_file_path,   \* local file_path of download_extract_and_upload
    fs,             \* local paths that exist under the download directory
    tree,           \* content of the extraction directory
    walk,           \* what os.walk still has to yield, as mkd / stor operations
    remote_files,   \* files the FTP server holds after a completed STOR
    success,        \* local success of download_extract_and_upload
    result,         \* what download_extract_and_upload returned
    response,       \* HTTP status of the answer (0: none yet)
    details,        \* 'details' of the 500 answer
    log,            \* history: every outside operation, in order
    fail_at         \* history: Len(log) when a stage first reported failure, else -1

vars == <<req, env, sep, pc, phase, base_url, last_error, release_data, asset,
          file_path, extract_to, up_asset, up_extract_to, up_file_path, fs,
          tree, walk, remote_files, success, result, response, details, log,
          fail_at>>

----------------------------------------------------------------------------
(* Bounds *)

\* longest asset list a release answer of the pipeline carries
MaxAssets == 2
\* longest asset list handed to find_release_asset on its own
MaxLen == 3

----------------------------------------------------------------------------
(* Strings *)

NoneV == [some |-> FALSE, val |-> <<>>]
Some(s) == [some |-> TRUE, val |-> s]
\* Python truthiness of an optional string
Truthy(v) == v.some /\ v.val # <<>>

RECURSIVE Replace(_, _, _)
\* str.replace(old, new): leftmost, non-overlapping
Replace(s, old, new) ==
    IF Len(s) < Len(old) \/ old = <<>> THEN s
    ELSE IF SubSeq(s, 1, Len(old)) = old
         THEN new \o Replace(SubSeq(s, Len(old) + 1, Len(s)), old, new)
         ELSE <<Head(s)>> \o Replace(Tail(s), old, new)

RECURSIVE RStrip(_, _)
\* str.rstrip(c) for a one-character c
RStrip(s, c) ==
    IF s # <<>> /\ s[Len(s)] = c THEN RStrip(SubSeq(s, 1, Len(s) - 1), c) ELSE s

ReleasePrefix == <<"r", "e", "l", "e", "a", "s", "e", "-">>
TarGz == <<".", "t", "a", "r", ".", "g", "z">>

\* re.compile(r"^release-.*\.tar\.gz$").match(s): "." matches anything but a
\* newline, "$" matches at the end and before a final newline
PatternMatch(s) ==
    /\ Len(s) >= Len(ReleasePrefix) + Len(TarGz)
    /\ SubSeq(s, 1, Len(ReleasePrefix)) = ReleasePrefix
    /\ \E i \in Len(ReleasePrefix)..Len(s) :
          /\ \A j \in (Len(ReleasePrefix) + 1)..i : s[j] # "\n"
          /\ i + Len(TarGz) <= Len(s)
          /\ SubSeq(s, i + 1, i + Len(TarGz)) = TarGz
          /\ \/ i + Len(TarGz) = Len(s)
             \/ i + Len(TarGz) = Len(s) - 1 /\ s[Len(s)] = "\n"

\* os.path.join(a, b) for a relative b
Join(a, b) == a \o <<sep>> \o b
\* os.path.relpath(path, start) for a path below start
Relpath(path, start) == SubSeq(path, Len(start) + 2, Len(path))
\* .replace("\\", "/")
Slashes(p) == Replace(p, <<"\\">>, <<"/">>)

download_path == <<".", "/", "d", "o", "w", "n", "l", "o", "a", "d", "s">>

----------------------------------------------------------------------------
(* Values the outside can supply *)

Secret == <<"k">>
Wrong == <<"x">>
RepoName == <<"o", "/", "r">>
RemoteRoot == <<"/", "w">>

\* the JSON fields of a request body that is an object (a missing or
\* unparsable body is the object without fields: "or {}")
ApiKeys == {NoneV, Some(<<>>), Some(Secret), Some(Wrong)}
RepoNames == {NoneV, Some(<<>>), Some(RepoName)}
RemotePaths == {NoneV, Some(<<>>), Some(RemoteRoot)}
Requests ==
    [body : {"object"}, api_key : ApiKeys, repo_name : RepoNames,
     remote_path : RemotePaths]
    \cup [body : {"array"}, api_key : {NoneV}, repo_name : {NoneV},
          remote_path : {NoneV}]

FtpEnvs ==
    { [host |-> Some(<<"f">>), user |-> Some(<<"u">>), password |-> Some(<<"p">>)],
      [host |-> NoneV, user |-> Some(<<"u">>), password |-> Some(<<"p">>)],
      [host |-> Some(<<"f">>), user |-> Some(<<"u">>), password |-> Some(<<>>)] }
Envs ==
    [APIKEY : {NoneV, Some(Secret)},
     GITEA_TOKEN : {NoneV, Some(<<"t">>)},
     GITEA_BASE_URL : {NoneV, Some(<<"h">>), Some(<<"h", "/">>), Some(<<"/">>)},
     FTP : FtpEnvs]

BoundedSeqs(S, n) == UNION {[1..k -> S] : k \in 0..n}

NoAsset == [some |-> FALSE, name |-> <<>>, url |-> <<>>]
AssetNamed(n) == [some |-> TRUE, name |-> n, url |-> <<"/", "a", "/">> \o n]

N1 == ReleasePrefix \o <<"1">> \o TarGz
N2 == ReleasePrefix \o <<"2">> \o TarGz
NSig == N1 \o <<".", "s", "i", "g">>
NUpper == <<"R">> \o Tail(N1)
NPre == <<"x">> \o N1
NDot == ReleasePrefix \o <<"1", "x", "t", "a", "r", ".", "g", "z">>
NBare == ReleasePrefix \o TarGz
NNewline == N1 \o <<"\n">>
NMidNewline == ReleasePrefix \o <<"\n">> \o TarGz

PipelineNames == {N1, N2, NSig}
SelectorNames == {N1, N2, NSig, NUpper, NPre, NDot, NBare, NNewline, NMidNewline}

NoRelease == [kind |-> "none", has_assets |-> FALSE, assets |-> <<>>]
FalsyJson == [kind |-> "falsy", has_assets |-> FALSE, assets |-> <<>>]
ReleasesOver(names, n) ==
    { [kind |-> "release", has_assets |-> TRUE, assets |-> l] :
        l \in BoundedSeqs({AssetNamed(x) : x \in names}, n) }
    \cup { [kind |-> "release", has_assets |-> FALSE, assets |-> <<>>] }

\* what requests.get(...).json() can hand back on a successful response
JsonBodies == ReleasesOver(PipelineNames, MaxAssets) \cup {FalsyJson}

----------------------------------------------------------------------------
(* The extracted tree and os.walk *)

A == <<"a">>
D == <<"d">>
Btxt == <<"b", ".", "t", "x", "t">>
Ctxt == <<"c", ".", "t", "x", "t">>
XbsY == <<"x", "\\", "y">>

Leaf(files) == [dirs |-> <<>>, files |-> files]
\* a tree maps the component path of each directory to its entries, in the
\* order os.scandir lists them
TreeEmpty == (<<>> :> Leaf(<<>>))
TreeExample == (<<>> :> [dirs |-> <<A>>, files |-> <<Ctxt>>]) @@ (<<A>> :> Leaf(<<Btxt>>))
TreeNested ==
    (<<>> :> [dirs |-> <<A>>, files |-> <<>>])
    @@ (<<A>> :> [dirs |-> <<D>>, files |-> <<>>])
    @@ (<<A, D>> :> Leaf(<<Btxt>>))
TreeSiblings ==
    (<<>> :> [dirs |-> <<A, D>>, files |-> <<>>])
    @@ (<<A>> :> Leaf(<<Btxt>>)) @@ (<<D>> :> Leaf(<<>>))
\* a file whose name holds a backslash: a legal name where os.sep is "/"
TreeBackslash == (<<>> :> Leaf(<<XbsY>>))

Trees(s) ==
    {TreeEmpty, TreeExample, TreeNested, TreeSiblings}
    \cup (IF s = "/" THEN {TreeBackslash} ELSE {})

MkdOp(dir_path) == [op |-> "mkd", path |-> dir_path]
StorOp(remote_file_path) == [op |-> "stor", path |-> remote_file_path]

RECURSIVE Walk(_, _, _, _)
RECURSIVE WalkInto(_, _, _, _, _)
\* the operations of one os.walk step at directory root (component path
\* rel), followed by the steps of its subdirectories, top-down
Walk(t, local_path, root, rel) ==
    LET node == t[rel]
        mk == [i \in 1..Len(node.dirs) |->
                 MkdOp(Slashes(Relpath(Join(root, node.dirs[i]), local_path)))]
        st == [i \in 1..Len(node.files) |->
                 StorOp(Slashes(Relpath(Join(root, node.files[i]), local_path)))]
    IN mk \o st \o WalkInto(t, local_path, root, rel, 1)
WalkInto(t, local_path, root, rel, i) ==
    IF i > Len(t[rel].dirs) THEN <<>>
    ELSE Walk(t, local_path, Join(root, t[rel].dirs[i]), rel \o <<t[rel].dirs[i]>>)
         \o WalkInto(t, local_path, root, rel, i + 1)

\* os.walk(local_path) of a path that does not exist yields nothing
WalkOps(local_path) ==
    IF local_path \in fs THEN Walk(tree, local_path, local_path, <<>>) ELSE <<>>

----------------------------------------------------------------------------
(* Pure helpers of the pipeline *)

RECURSIVE LastMatchFrom(_, _)
\* mutant of FirstMatchFrom: a later match replaces an earlier one
LastMatchFrom(assets, i) ==
    IF i > Len(assets) THEN NoAsset
    ELSE LET later == LastMatchFrom(assets, i + 1) IN
         IF later.some THEN later
         ELSE IF PatternMatch(assets[i].name) THEN assets[i] ELSE NoAsset

RECURSIVE FirstMatchFrom(_, _)
\* the for loop of find_release_asset, from list position i on
FirstMatchFrom(assets, i) ==
    IF i > Len(assets) THEN NoAsset
    ELSE IF PatternMatch(assets[i].name) THEN assets[i]
    ELSE FirstMatchFrom(assets, i + 1)

\* find_release_asset: release_data.get("assets", []) scanned in order
find_release_asset(rd) ==
    FirstMatchFrom(IF rd.has_assets THEN rd.assets ELSE <<>>, 1)

\* os.path.join(download_path, file_name)
ArchivePath(file_name) == Join(download_path, file_name)
\* os.path.join(download_path, file_name.replace(".tar.gz", ""))
ExtractDir(file_name) == Join(download_path, Replace(file_name, TarGz, <<>>))

Event(stage, op, arg, ok) == [stage |-> stage, op |-> op, arg |-> arg, ok |-> ok]

----------------------------------------------------------------------------
(* Fragments shared by the actions *)

\* download_extract_and_upload returns False with last_error = err; the
\* endpoint answers 500 with details = last_error or 'Unknown error'
ReturnFalse(err) ==
    /\ last_error' = err
    /\ result' = "False"
    /\ response' = 500
    /\ details' = IF err = "None" THEN "Unknown error" ELSE err
    /\ pc' = "done"
    /\ fail_at' = IF fail_at = -1 THEN Len(log') ELSE fail_at

\* the handler goes on to its next step
GoOn(next) ==
    /\ pc' = next
    /\ UNCHANGED <<last_error, result, response, details, fail_at>>

\* an exception nobody catches leaves the handler: Flask answers 500
Raise ==
    /\ pc' = "done"
    /\ result' = "raised"
    /\ response' = 500
    /\ UNCHANGED <<last_error, details, fail_at>>

\* mutant of UploadReturnsFalse: the deletions are not guarded by "if success"
UploadReturnsFalse_Cleanup(err) ==
    /\ success' = FALSE
    /\ last_error' = err
    /\ pc' = "rm_file"
    /\ fail_at' = IF fail_at = -1 THEN Len(log') ELSE fail_at
    /\ UNCHANGED <<result, response, details>>

\* upload_to_ftp returns False after _set_error(err); "if success" skips the
\* deletions and download_extract_and_upload returns success
UploadReturnsFalse(err) ==
    /\ success' = FALSE
    /\ ReturnFalse(err)

----------------------------------------------------------------------------
(* Initial states *)

Fresh ==
    /\ base_url = <<>>
    /\ last_error = "None"
    /\ asset = NoAsset
    /\ file_path = <<>>
    /\ extract_to = <<>>
    /\ up_asset = NoAsset
    /\ up_extract_to = <<>>
    /\ up_file_path = <<>>
    /\ fs = {}
    /\ tree = TreeEmpty
    /\ walk = <<>>
    /\ remote_files = {}
    /\ success = FALSE
    /\ result = "none"
    /\ response = 0
    /\ details = "none"
    /\ log = <<>>
    /\ fail_at = -1

Init ==
    /\ req \in Requests
    /\ env \in Envs
    /\ sep \in {"/", "\\"}
    /\ pc = "request"
    /\ phase = 1
    /\ release_data = NoRelease
    /\ Fresh

----------------------------------------------------------------------------
(* The trigger endpoint, up to the construction of the downloader *)

HandleRequest ==
    /\ pc = "request"
    /\ UNCHANGED <<req, env, sep, phase, release_data, asset, file_path,
                   extract_to, up_asset, up_extract_to, up_file_path, fs, tree,
                   walk, remote_files, success, log>>
    /\ IF req.body # "object"
       THEN \* data is a list: data.get raises AttributeError
            /\ Raise
            /\ UNCHANGED base_url
       ELSE IF ~Truthy(req.api_key) \/ req.api_key # env.APIKEY
       THEN /\ response' = 403
            /\ pc' = "done"
            /\ UNCHANGED <<base_url, last_error, result, details, fail_at>>
       ELSE IF \/ ~Truthy(req.repo_name) \/ ~Truthy(env.GITEA_TOKEN)
               \/ ~Truthy(env.GITEA_BASE_URL) \/ ~Truthy(req.remote_path)
       THEN /\ response' = 400
            /\ pc' = "done"
            /\ UNCHANGED <<base_url, last_error, result, details, fail_at>>
       ELSE \* GiteaReleaseDownloader.__init__
            /\ base_url' = RStrip(env.GITEA_BASE_URL.val, "/")
            /\ last_error' = "None"
            /\ pc' = "get"
            /\ UNCHANGED <<result, response, details, fail_at>>

----------------------------------------------------------------------------
(* Release Locator and Asset Selector: called in phase 1 and again in phase 2 *)

GetLatestRelease ==
    /\ pc = "get"
    /\ UNCHANGED <<req, env, sep, phase, base_url, asset, file_path, extract_to,
                   up_asset, up_extract_to, up_file_path, fs, tree, walk,
                   remote_files, success>>
    /\ IF base_url = <<>>
       THEN /\ log' = log
            /\ release_data' = NoRelease
            /\ ReturnFalse("Gitea base URL is missing.")
       ELSE \E answer \in JsonBodies \cup {NoRelease} :
            /\ log' = Append(log, Event("get_latest_release", "GET",
                                        base_url \o <<"/">> \o req.repo_name.val,
                                        answer.kind # "none"))
            /\ release_data' = answer
            /\ IF answer.kind = "none"
               THEN ReturnFalse("Error getting release information")
               ELSE IF answer.kind = "falsy"
               THEN \* "if not release_data: return False"
                    ReturnFalse(last_error)
               ELSE GoOn("find")

FindReleaseAsset ==
    /\ pc = "find"
    /\ UNCHANGED <<req, env, sep, phase, base_url, release_data, file_path,
                   extract_to, up_file_path, fs, tree, walk, remote_files,
                   success>>
    /\ LET found == find_release_asset(release_data) IN
       /\ log' = Append(log, Event("find_release_asset", "select", found.name,
                                   found.some))
       /\ IF ~found.some
          THEN /\ ReturnFalse("No file found with pattern release-*.tar.gz")
               /\ UNCHANGED <<asset, up_asset, up_extract_to>>
          ELSE IF phase = 1
          THEN /\ asset' = found
               /\ GoOn("download")
               /\ UNCHANGED <<up_asset, up_extract_to>>
          ELSE /\ up_asset' = found
               /\ up_extract_to' = ExtractDir(found.name)
               /\ GoOn("upload")
               /\ UNCHANGED asset

----------------------------------------------------------------------------
(* Transfer Stage *)

DownloadOutcomes == {"makedirs_raises", "http_error", "open_error", "stream_error", "ok"}

DownloadFile ==
    /\ pc = "download"
    /\ UNCHANGED <<req, env, sep, phase, base_url, release_data, asset,
                   up_asset, up_extract_to, up_file_path, tree, walk,
                   remote_files, success>>
    /\ \E outcome \in DownloadOutcomes :
       LET target == Join(download_path, asset.name) IN
       /\ log' = Append(log, Event("download_file",
                    CASE outcome = "makedirs_raises" -> "makedirs"
                      [] outcome = "http_error" -> "GET"
                      [] outcome = "open_error" -> "open"
                      [] OTHER -> "write",
                    IF outcome \in {"makedirs_raises", "http_error"}
                    THEN asset.url ELSE target,
                    outcome = "ok"))
       \* open(file_path, 'wb') creates the file; a stream that breaks after
       \* some chunks leaves the partial file behind
       /\ fs' = IF outcome \in {"stream_error", "ok"} THEN fs \cup {target} ELSE fs
       /\ CASE outcome = "makedirs_raises" ->
                 \* os.makedirs stands outside the try
                 /\ Raise
                 /\ UNCHANGED <<file_path, extract_to>>
            [] outcome \in {"http_error", "stream_error"} ->
                 /\ ReturnFalse("Error downloading file")
                 /\ UNCHANGED <<file_path, extract_to>>
            [] outcome = "open_error" ->
                 /\ ReturnFalse("Unexpected error")
                 /\ UNCHANGED <<file_path, extract_to>>
            [] OTHER ->
                 /\ file_path' = ArchivePath(asset.name)
                 /\ extract_to' = ExtractDir(asset.name)
                 /\ GoOn("extract")

\* mutant of ExtractFails: the caller drops the "if not ...: return False"
ExtractFails_Ignored ==
    /\ last_error' = "Error extracting file"
    /\ fail_at' = IF fail_at = -1 THEN Len(log') ELSE fail_at
    /\ phase' = 2
    /\ release_data' = NoRelease
    /\ pc' = "get"
    /\ UNCHANGED <<result, response, details>>

\* extract_file fails: download_and_extract_latest_release returns False and
\* so does download_extract_and_upload
ExtractFails ==
    /\ ReturnFalse("Error extracting file")
    /\ UNCHANGED <<phase, release_data>>

ExtractFile ==
    /\ pc = "extract"
    /\ UNCHANGED <<req, env, sep, base_url, asset, file_path, extract_to,
                   up_asset, up_extract_to, up_file_path, walk, remote_files,
                   success>>
    /\ \E ok \in BOOLEAN :
       /\ log' = Append(log, Event("extract_file", "extractall", extract_to, ok))
       /\ IF ok
          THEN \E t \in Trees(sep) :
               /\ fs' = fs \cup {extract_to}
               /\ tree' = t
               \* back in download_extract_and_upload, whose remote_path the
               \* endpoint has checked to be non-empty
               /\ phase' = 2
               /\ release_data' = NoRelease
               /\ GoOn("get")
          ELSE /\ UNCHANGED <<fs, tree>>
               /\ ExtractFails

----------------------------------------------------------------------------
(* Publisher: upload_to_ftp *)

FtpConnect ==
    /\ pc = "upload"
    /\ UNCHANGED <<req, env, sep, phase, base_url, release_data, asset,
                   file_path, extract_to, up_asset, up_extract_to, up_file_path,
                   fs, tree, walk, remote_files>>
    /\ IF ~(Truthy(env.FTP.host) /\ Truthy(env.FTP.user) /\ Truthy(env.FTP.password))
       THEN /\ log' = log
            /\ UploadReturnsFalse("FTP credentials are missing in the .env file.")
       ELSE \E ok \in BOOLEAN :
            /\ log' = Append(log, Event("upload_to_ftp", "login", env.FTP.host.val, ok))
            /\ IF ok
               THEN GoOn("ftp_cwd") /\ UNCHANGED success
               ELSE UploadReturnsFalse("Error uploading to FTP")

\* ftp.cwd(remote_path), first try (cwd2 = FALSE) and after the mkd
FtpCwd ==
    /\ pc \in {"ftp_cwd", "ftp_cwd2"}
    /\ UNCHANGED <<req, env, sep, phase, base_url, release_data, asset,
                   file_path, extract_to, up_asset, up_extract_to, up_file_path,
                   fs, tree, remote_files>>
    /\ \E ok \in BOOLEAN :
       /\ log' = Append(log, Event("upload_to_ftp", "cwd", req.remote_path.val, ok))
       /\ IF ok
          THEN /\ walk' = WalkOps(up_extract_to)
               /\ GoOn("walk")
               /\ UNCHANGED success
          ELSE IF pc = "ftp_cwd"
          THEN /\ GoOn("ftp_mkd_root")
               /\ UNCHANGED <<walk, success>>
          ELSE /\ UploadReturnsFalse("Error uploading to FTP")
               /\ UNCHANGED walk

\* ftp.mkd(remote_path) in the handler of the failed cwd
FtpMkdRoot ==
    /\ pc = "ftp_mkd_root"
    /\ UNCHANGED <<req, env, sep, phase, base_url, release_data, asset,
                   file_path, extract_to, up_asset, up_extract_to, up_file_path,
                   fs, tree, walk, remote_files>>
    /\ \E ok \in BOOLEAN :
       /\ log' = Append(log, Event("upload_to_ftp", "mkd", req.remote_path.val, ok))
       /\ IF ok
          THEN GoOn("ftp_cwd2") /\ UNCHANGED success
          ELSE UploadReturnsFalse("Error uploading to FTP")

\* mutant of WalkMkdFailed: the inner try/except is missing
WalkMkdFailed_Abort ==
    /\ UploadReturnsFalse("Error uploading to FTP")
    /\ UNCHANGED walk

\* a failed ftp.mkd(dir_path) of the walk: "except Exception as e: print"
WalkMkdFailed ==
    /\ walk' = Tail(walk)
    /\ GoOn("walk")
    /\ UNCHANGED success

WalkMkd ==
    /\ pc = "walk"
    /\ walk # <<>>
    /\ Head(walk).op = "mkd"
    /\ UNCHANGED <<req, env, sep, phase, base_url, release_data, asset,
                   file_path, extract_to, up_asset, up_extract_to, up_file_path,
                   fs, tree, remote_files>>
    /\ \E ok \in BOOLEAN :
       /\ log' = Append(log, Event("upload_to_ftp", "mkd", Head(walk).path, ok))
       /\ IF ok
          THEN /\ walk' = Tail(walk)
               /\ GoOn("walk")
               /\ UNCHANGED success
          ELSE WalkMkdFailed

\* mutant of WalkStorFailed: a file error is tolerated like a directory error
WalkStorFailed_Swallowed ==
    /\ walk' = Tail(walk)
    /\ GoOn("walk")
    /\ UNCHANGED success

\* open(file_path, "rb") or ftp.storbinary raised: the outer except
WalkStorFailed ==
    /\ UploadReturnsFalse("Error uploading to FTP")
    /\ UNCHANGED walk

WalkStor ==
    /\ pc = "walk"
    /\ walk # <<>>
    /\ Head(walk).op = "stor"
    /\ UNCHANGED <<req, env, sep, phase, base_url, release_data, asset,
                   file_path, extract_to, up_asset, up_extract_to, up_file_path,
                   fs, tree>>
    /\ \E outcome \in {"open_error", "stor_error", "ok"} :
       /\ log' = Append(log, Event("upload_to_ftp",
                                   IF outcome = "open_error" THEN "open" ELSE "STOR",
                                   Head(walk).path, outcome = "ok"))
       /\ IF outcome = "ok"
          THEN /\ remote_files' = remote_files \cup {Head(walk).path}
               /\ walk' = Tail(walk)
               /\ GoOn("walk")
               /\ UNCHANGED success
          ELSE /\ UNCHANGED remote_files
               /\ WalkStorFailed

FtpQuit ==
    /\ pc = "walk"
    /\ walk = <<>>
    /\ UNCHANGED <<req, env, sep, phase, base_url, release_data, asset,
                   file_path, extract_to, up_asset, up_extract_to, up_file_path,
                   fs, tree, walk, remote_files>>
    /\ \E ok \in BOOLEAN :
       /\ log' = Append(log, Event("upload_to_ftp", "quit", <<>>, ok))
       /\ IF ok
          THEN /\ success' = TRUE
               /\ GoOn("rm_file")
          ELSE UploadReturnsFalse("Error uploading to FTP")

----------------------------------------------------------------------------
(* Cleanup after "if success" *)

\* mutant of RemoveFailed: a failed os.remove ends the run with failure
RemoveFailed_Abort(err) ==
    /\ last_error' = err
    /\ result' = "False"
    /\ response' = 500
    /\ details' = err
    /\ pc' = "done"
    /\ UNCHANGED fail_at

\* os.remove raised: the error is recorded and the code goes on to rmtree
RemoveFailed(err) ==
    /\ last_error' = err
    /\ pc' = "rm_dir"
    /\ UNCHANGED <<result, response, details, fail_at>>

RemoveArchive ==
    /\ pc = "rm_file"
    /\ UNCHANGED <<req, env, sep, phase, base_url, release_data, asset,
                   file_path, extract_to, up_asset, up_extract_to, tree, walk,
                   remote_files, success>>
    /\ up_file_path' = ArchivePath(up_asset.name)
    /\ \E ok \in BOOLEAN :
       \* a file that is not there cannot be removed
       /\ ok => up_file_path' \in fs
       /\ log' = Append(log, Event("cleanup", "remove", up_file_path', ok))
       /\ fs' = IF ok THEN fs \ {up_file_path'} ELSE fs
       /\ IF ok THEN GoOn("rm_dir") ELSE RemoveFailed("Error deleting file")

\* "return success", and the endpoint's answer to it
ReturnSuccess ==
    /\ result' = IF success THEN "True" ELSE "False"
    /\ response' = IF success THEN 200 ELSE 500
    /\ details' = IF success THEN details
                  ELSE IF last_error' = "None" THEN "Unknown error" ELSE last_error'
    /\ pc' = "done"
    /\ UNCHANGED fail_at

RemoveDir ==
    /\ pc = "rm_dir"
    /\ UNCHANGED <<req, env, sep, phase, base_url, release_data, asset,
                   file_path, extract_to, up_asset, up_extract_to, up_file_path,
                   tree, walk, remote_files, success>>
    /\ \E ok \in BOOLEAN :
       /\ ok => up_extract_to \in fs
       /\ log' = Append(log, Event("cleanup", "rmtree", up_extract_to, ok))
       /\ fs' = IF ok THEN fs \ {up_extract_to} ELSE fs
       /\ last_error' = IF ok THEN last_error ELSE "Error deleting directory"
       /\ ReturnSuccess

----------------------------------------------------------------------------
(* Specifications *)

Next ==
    \/ HandleRequest
    \/ GetLatestRelease
    \/ FindReleaseAsset
    \/ DownloadFile
    \/ ExtractFile
    \/ FtpConnect
    \/ FtpCwd
    \/ FtpMkdRoot
    \/ WalkMkd
    \/ WalkStor
    \/ FtpQuit
    \/ RemoveArchive
    \/ RemoveDir

Spec == Init /\ [][Next]_vars

\* find_release_asset on its own: any bounded asset list, called from
\* either of its two call sites
InitSelector ==
    /\ req = [body |-> "object", api_key |-> Some(Secret),
              repo_name |-> Some(RepoName), remote_path |-> Some(RemoteRoot)]
    /\ env \in {e \in Envs : e.APIKEY = Some(Secret) /\ Truthy(e.GITEA_TOKEN)
                              /\ e.GITEA_BASE_URL = Some(<<"h">>)
                              /\ Truthy(e.FTP.host) /\ Truthy(e.FTP.password)}
    /\ sep = "/"
    /\ pc = "find"
    /\ phase \in {1, 2}
    /\ Fresh
    /\ release_data \in ReleasesOver(SelectorNames, MaxLen)

NextSelector == FindReleaseAsset

SpecSelector == InitSelector /\ [][NextSelector]_vars

----------------------------------------------------------------------------
(* Vocabulary of the properties *)

Entries == 1..Len(log)
IsOp(i, stage, op) == log[i].stage = stage /\ log[i].op = op
\* the mkd of the remote root follows the failed cwd; every other mkd
\* belongs to the walk
IsRootMkd(i) ==
    /\ IsOp(i, "upload_to_ftp", "mkd")
    /\ i > 1 /\ IsOp(i - 1, "upload_to_ftp", "cwd") /\ ~log[i - 1].ok
IsWalkMkd(i) == IsOp(i, "upload_to_ftp", "mkd") /\ ~IsRootMkd(i)
IsTransfer(i) == IsOp(i, "upload_to_ftp", "open") \/ IsOp(i, "upload_to_ftp", "STOR")
UploadCalled == up_asset.some
UploadReturned == UploadCalled /\ pc \in {"rm_file", "rm_dir", "done"}

ApiKeyOk == Truthy(req.api_key) /\ req.api_key = env.APIKEY
FieldsOk == Truthy(req.repo_name) /\ Truthy(req.remote_path)
Answered == pc = "done"

RECURSIVE JoinSlash(_)
JoinSlash(components) ==
    IF Len(components) = 1 THEN components[1]
    ELSE components[1] \o <<"/">> \o JoinSlash(Tail(components))
\* the tree upload_to_ftp is given: the extracted one when local_path is the
\* directory this run extracted, none when local_path does not exist
UploadedTree == IF up_extract_to = extract_to THEN tree ELSE TreeEmpty
FilesOf(t) == UNION {{d \o <<t[d].files[i]>> : i \in 1..Len(t[d].files)} : d \in DOMAIN t}
DirsOf(t) == DOMAIN t \ {<<>>}
Ancestors(f) == {SubSeq(f, 1, k) : k \in 1..(Len(f) - 1)}

----------------------------------------------------------------------------
(* C1 *)

\* C1: a request whose api_key is missing, empty or different from the
\* configured secret is answered 403; one that passes that guard but lacks
\* repo_name or remote_path is answered 400; a request answered 403 or 400
\* ran no stage and made no call to the release host; the pipeline starts only
\* when both guards pass.
C1_GuardsThenPipeline ==
    /\ (Answered /\ ~ApiKeyOk) => response = 403
    /\ (Answered /\ ApiKeyOk /\ ~FieldsOk) => response = 400
    /\ response \in {403, 400} => log = <<>> /\ result = "none"
    /\ (log # <<>> \/ result \in {"True", "False"}) => ApiKeyOk /\ FieldsOk

\* C1, for a body that is a JSON object (or missing): the same four
\* statements; every state of such a request satisfies them.
C1_ObjectBodies == req.body = "object" => C1_GuardsThenPipeline

----------------------------------------------------------------------------
(* C2 *)

AbortingStages == {"get_latest_release", "find_release_asset", "download_file",
                   "extract_file"}

\* C2: once a stage has reported failure the run has returned False and
\* nothing was done after the failure: no log entry follows it.  A failed
\* operation of the first four stages is the last entry of the log, so a
\* failed selection is never followed by a download and a failed download,
\* broken stream included, never by an extraction or an upload.
C2_FailureAborts ==
    /\ fail_at # -1 => Len(log) = fail_at /\ pc = "done" /\ result = "False"
    /\ \A i \in Entries :
          (log[i].stage \in AbortingStages /\ ~log[i].ok) => i = Len(log)
    /\ (UploadReturned /\ ~success) => pc = "done" /\ result = "False" /\ fail_at = Len(log)

\* C2 witness: a download broke after partial bytes (the partial file is on
\* disk) and the run ended there with False.
C2_Witness ==
    /\ pc = "done" /\ result = "False" /\ log # <<>>
    /\ IsOp(Len(log), "download_file", "write") /\ ~log[Len(log)].ok
    /\ log[Len(log)].arg \in fs

----------------------------------------------------------------------------
(* C3 *)

\* C3 as stated: after the run, a successful upload_to_ftp means neither the
\* archive nor the extraction directory of this run exists; a failed one
\* means both exist.
C3_CleanupExact ==
    (pc = "done" /\ UploadCalled) =>
        IF success THEN file_path \notin fs /\ extract_to \notin fs
        ELSE file_path \in fs /\ extract_to \in fs

\* C3 amended: after a failed upload_to_ftp no deletion is attempted and the
\* archive and directory of this run still exist; after a successful one the
\* two deletions are attempted, on the archive path and the directory path
\* derived from the asset located just before the upload, and each of the two
\* whose deletion succeeded no longer exists.
C3_CleanupBestEffort ==
    (pc = "done" /\ UploadCalled) =>
        IF success
        THEN /\ Len(log) >= 2
             /\ IsOp(Len(log) - 1, "cleanup", "remove")
             /\ log[Len(log) - 1].arg = ArchivePath(up_asset.name)
             /\ IsOp(Len(log), "cleanup", "rmtree")
             /\ log[Len(log)].arg = ExtractDir(up_asset.name)
             /\ \A i \in {Len(log) - 1, Len(log)} : log[i].ok => log[i].arg \notin fs
        ELSE /\ file_path \in fs /\ extract_to \in fs
             /\ \A i \in Entries : log[i].stage # "cleanup"

\* C3 witness: the upload succeeded, os.remove failed, and the archive of
\* this run is still on disk when the run has returned.
C3_Witness ==
    /\ pc = "done" /\ success /\ up_asset = asset
    /\ \E i \in Entries : IsOp(i, "cleanup", "remove") /\ ~log[i].ok
    /\ file_path \in fs /\ extract_to \notin fs

----------------------------------------------------------------------------
(* C4 *)

\* C4: the asset the upload and the deletions work from is the asset that
\* was downloaded and extracted, whatever the release API answers.
C4_OneAsset ==
    /\ up_asset.some => up_asset = asset /\ up_extract_to = extract_to
    /\ up_file_path # <<>> => up_file_path = file_path

----------------------------------------------------------------------------
(* C5 *)

\* C5 as stated: no failed mkd of upload_to_ftp makes the stage return
\* False; after it the stage is still running or has gone on.
C5_NoMkdAborts ==
    \A i \in Entries :
        (IsOp(i, "upload_to_ftp", "mkd") /\ ~log[i].ok) =>
            (i < Len(log) \/ pc = "walk")

\* C5 amended: a failed mkd of a directory met in the walk is swallowed: the
\* stage does not return False because of it, and the walk goes on.  A failed
\* mkd of the remote root (after the failed cwd) makes the stage return False.
C5_WalkMkdSwallowed ==
    \A i \in Entries :
        /\ (IsWalkMkd(i) /\ ~log[i].ok) => (i < Len(log) \/ pc = "walk")
        /\ (IsRootMkd(i) /\ ~log[i].ok) =>
              i = Len(log) /\ pc = "done" /\ ~success /\ result = "False"

\* C5 witness: a mkd of the walk failed, later operations of the walk ran and
\* the stage returned True.
C5_Witness ==
    /\ success
    /\ \E i \in Entries :
          /\ IsWalkMkd(i) /\ ~log[i].ok
          /\ \E j \in Entries : j > i /\ IsOp(j, "upload_to_ftp", "STOR") /\ log[j].ok

----------------------------------------------------------------------------
(* C6 *)

\* C6: a failed open or STOR is the last operation of the run: the stage
\* and the run return False, nothing is transferred or created after it, and
\* every file stored before it is still on the server.
C6_TransferFailureAborts ==
    \A i \in Entries :
        (IsTransfer(i) /\ ~log[i].ok) =>
            /\ i = Len(log)
            /\ pc = "done" /\ ~success /\ result = "False"
            /\ \A j \in 1..(i - 1) :
                  (IsOp(j, "upload_to_ftp", "STOR") /\ log[j].ok) =>
                      log[j].arg \in remote_files

\* C6 witness: one file was stored, the next STOR failed.
C6_Witness ==
    \E i, j \in Entries :
        /\ i < j
        /\ IsOp(i, "upload_to_ftp", "STOR") /\ log[i].ok
        /\ IsOp(j, "upload_to_ftp", "STOR") /\ ~log[j].ok

----------------------------------------------------------------------------
(* C7 *)

\* C7: a file's transfer is attempted only after a mkd attempt for each of
\* its ancestor directories; and when the stage has returned True every file
\* of the tree was stored exactly once under its relative path written with
\* forward slashes, nothing else was stored, and every directory had exactly
\* one mkd attempt in the walk.
C7_DirsFirstAllOnce ==
    LET t == UploadedTree IN
    /\ \A f \in FilesOf(t) : \A j \in Entries :
          (IsTransfer(j) /\ log[j].arg = JoinSlash(f)) =>
              \A d \in Ancestors(f) :
                  \E i \in 1..(j - 1) : IsWalkMkd(i) /\ log[i].arg = JoinSlash(d)
    /\ (UploadReturned /\ success) =>
          /\ \A f \in FilesOf(t) :
                Cardinality({j \in Entries : IsTransfer(j) /\ log[j].arg = JoinSlash(f)}) = 1
          /\ remote_files = {JoinSlash(f) : f \in FilesOf(t)}
          /\ Cardinality({j \in Entries : IsTransfer(j)}) = Cardinality(FilesOf(t))
          /\ \A d \in DirsOf(t) :
                Cardinality({i \in Entries : IsWalkMkd(i) /\ log[i].arg = JoinSlash(d)}) = 1

\* C7, for trees none of whose names holds a backslash: the same statement.
C7_NoBackslashNames == tree # TreeBackslash => C7_DirsFirstAllOnce

----------------------------------------------------------------------------
(* C8 *)

\* C8: after a successful upload the run returns True and the endpoint
\* answers 200 whatever the deletions did, and a failed os.remove is always
\* followed by the rmtree attempt.
C8_CleanupKeepsSuccess ==
    /\ (pc = "done" /\ success) => result = "True" /\ response = 200
    /\ \A i \in Entries :
          (IsOp(i, "cleanup", "remove") /\ ~log[i].ok) =>
              \/ pc = "rm_dir"
              \/ i < Len(log) /\ IsOp(i + 1, "cleanup", "rmtree")

\* C8 witness: both deletions failed and the answer is 200.
C8_Witness ==
    /\ pc = "done" /\ response = 200
    /\ \E i \in Entries : IsOp(i, "cleanup", "remove") /\ ~log[i].ok
    /\ \E i \in Entries : IsOp(i, "cleanup", "rmtree") /\ ~log[i].ok

----------------------------------------------------------------------------
(* C9 *)

\* names of SelectorNames that re.match accepts for ^release-.*\.tar\.gz$
MatchingNames == {N1, N2, NBare, NNewline}
ListedAssets == IF release_data.has_assets THEN release_data.assets ELSE <<>>
Selected == IF phase = 1 THEN asset ELSE up_asset

\* C9: find_release_asset returns the first asset, in list order, whose name
\* matches the pattern, and returns None with the 'no matching asset' error
\* recorded exactly when no name matches; an empty or absent list gives None.
C9_FirstMatch ==
    (pc # "find") =>
        LET hits == {i \in 1..Len(ListedAssets) : ListedAssets[i].name \in MatchingNames} IN
        IF hits = {}
        THEN /\ Selected = NoAsset
             /\ last_error = "No file found with pattern release-*.tar.gz"
             /\ result = "False"
        ELSE /\ \E m \in hits : (\A k \in hits : m <= k) /\ Selected = ListedAssets[m]
             /\ last_error = "None"
             /\ result = "none"

\* C9 witness: three assets, the first does not match, the second and the
\* third do, and the second was returned.
C9_Witness ==
    /\ pc # "find"
    /\ Len(ListedAssets) = 3
    /\ ListedAssets[1].name = NSig
    /\ ListedAssets[2].name = N2
    /\ ListedAssets[3].name = N1
    /\ Selected = AssetNamed(N2)

----------------------------------------------------------------------------
(* C10 *)

\* C10: whenever the run returns False, last_error is set and the 500 answer
\* carries it, never 'Unknown error'.
C10_FailureHasDiagnostic ==
    (pc = "done" /\ result = "False") =>
        last_error # "None" /\ details # "Unknown error"

====
